---- MODULE Spec2Model ----
(***************************************************************************)
(* A model of Main.py, the order bot: the catalog file, the users and      *)
(* cart_items tables, the orders workbook, and the update handlers that    *)
(* main() registers.                                                       *)
(*                                                                         *)
(* Text is a sequence of one-character strings; a callback token is the    *)
(* sequence of the parts that '_' separates ("orders_page_1" is            *)
(* <<"orders", "page", "1">>, "product_" is <<"product", "">>); a line of  *)
(* the catalog file is the sequence of the parts that '|' separates.       *)
(***************************************************************************)
EXTENDS Integers, Sequences, FiniteSets, TLC

VARIABLES
    products_txt,   \* products.txt: the lines of the catalog file
    users,          \* table users: user_id -> <<first_name, last_name>>, or NoUser
    cart_items,     \* table cart_items: rows in rowid order
    orders_xlsx,    \* orders.xlsx: the rows under the header, in sheet order
    conv,           \* ConversationHandler's state of each user's conversation
    user_data,      \* context.user_data of each user (a dict)
    view            \* what the bot did with the last update it handled

vars == <<products_txt, users, cart_items, orders_xlsx, conv, user_data, view>>

(***************************************************************************)
(* Python values                                                           *)
(***************************************************************************)

\* The numerals int() and float() accept, among the strings the model uses.
IntOf ==
    ("-5" :> -5) @@ ("-1" :> -1) @@ ("0" :> 0) @@ ("1" :> 1) @@ ("2" :> 2)
    @@ ("3" :> 3) @@ ("4" :> 4) @@ ("5" :> 5) @@ ("6" :> 6) @@ ("7" :> 7)
    @@ ("10" :> 10) @@ ("150" :> 150) @@ ("180" :> 180) @@ ("200" :> 200)
    @@ ("250" :> 250) @@ ("300" :> 300) @@ ("500" :> 500)

IsInt(s) == s \in DOMAIN IntOf

\* str(n), for the page numbers the pagination buttons carry
StrOf(n) == CHOOSE s \in DOMAIN IntOf : IntOf[s] = n

\* dict.get(key, default)
DictGet(d, key, default) == IF key \in DOMAIN d THEN d[key] ELSE default

\* d[key] = value
DictSet(d, key, value) == (key :> value) @@ d

RECURSIVE SplitFrom(_, _, _, _)
SplitFrom(s, i, cur, acc) ==
    IF i > Len(s)
    THEN IF cur = <<>> THEN acc ELSE Append(acc, cur)
    ELSE IF s[i] = " "
         THEN SplitFrom(s, i + 1, <<>>, IF cur = <<>> THEN acc ELSE Append(acc, cur))
         ELSE SplitFrom(s, i + 1, Append(cur, s[i]), acc)

\* str.split(): the maximal runs of non-whitespace characters
split(s) == SplitFrom(s, 1, <<>>, <<>>)

RECURSIVE join(_, _)
\* sep.join(parts)
join(sep, parts) ==
    IF parts = <<>> THEN <<>>
    ELSE IF Len(parts) = 1 THEN parts[1]
    ELSE parts[1] \o sep \o join(sep, Tail(parts))

\* f"{first_name} {last_name}"
full_name_of(profile) == profile[1] \o <<" ">> \o profile[2]

(***************************************************************************)
(* ProductRepository                                                       *)
(***************************************************************************)

RECURSIVE LoadFrom(_, _, _)
LoadFrom(lines, idx, products) ==
    IF idx > Len(lines) THEN products
    ELSE LET line == lines[idx] IN
         IF Len(line) < 2
         THEN \* no '|' in the line: skipped, and idx still counts it
              LoadFrom(lines, idx + 1, products)
         ELSE IF Len(line) < 3 \/ ~IsInt(line[2])
         THEN \* the unpacking or float() raises: the except clause ends the loop
              products
         ELSE LoadFrom(lines, idx + 1,
                       Append(products, [id |-> idx, name |-> line[1],
                                         price |-> IntOf[line[2]],
                                         description |-> SubSeq(line, 3, Len(line))]))

get_all_products(file) == LoadFrom(file, 1, <<>>)

\* the first product with that id, or NoProduct
NoProduct == [id |-> 0, name |-> "", price |-> 0, description |-> <<>>]

get_product_by_id(file, product_id) ==
    LET products == get_all_products(file)
        hits == {i \in DOMAIN products : products[i].id = product_id}
    IN IF hits = {} THEN NoProduct
       ELSE products[CHOOSE i \in hits : \A j \in hits : i <= j]

(***************************************************************************)
(* DatabaseManager                                                         *)
(***************************************************************************)

NoUser == <<>>

get_user(table, user_id) == table[user_id]

\* INSERT OR REPLACE INTO users
add_user(table, user_id, first_name, last_name) ==
    [table EXCEPT ![user_id] = <<first_name, last_name>>]

\* a bug add_to_cart could have: the row is inserted without the look-up
add_to_cart_insert_only(table, user_id, product_id, quantity) ==
    Append(table, [user_id |-> user_id, product_id |-> product_id,
                   quantity |-> quantity])

add_to_cart(table, user_id, product_id, quantity) ==
    LET existing == {i \in DOMAIN table :
                        table[i].user_id = user_id /\ table[i].product_id = product_id}
    IN IF existing # {}
       THEN LET first == CHOOSE i \in existing : \A j \in existing : i <= j
                new_quantity == table[first].quantity + quantity
            IN \* UPDATE ... WHERE user_id = ? AND product_id = ?
               [i \in DOMAIN table |->
                   IF i \in existing THEN [table[i] EXCEPT !.quantity = new_quantity]
                   ELSE table[i]]
       ELSE Append(table, [user_id |-> user_id, product_id |-> product_id,
                           quantity |-> quantity])

RECURSIVE JoinRows(_, _, _)
JoinRows(table, file, user_id) ==
    IF table = <<>> THEN <<>>
    ELSE LET row == Head(table)
             product == get_product_by_id(file, row.product_id)
             rest == JoinRows(Tail(table), file, user_id)
         IN IF row.user_id = user_id /\ product # NoProduct
            THEN <<[id |-> product.id, name |-> product.name, price |-> product.price,
                    quantity |-> row.quantity]>> \o rest
            ELSE rest

\* the user's rows joined with the catalog; a row with no product is dropped
get_cart_items(table, file, user_id) == JoinRows(table, file, user_id)

RECURSIVE DeleteRows(_, _)
DeleteRows(table, user_id) ==
    IF table = <<>> THEN <<>>
    ELSE IF Head(table).user_id = user_id THEN DeleteRows(Tail(table), user_id)
    ELSE <<Head(table)>> \o DeleteRows(Tail(table), user_id)

\* DatabaseManager.clear_cart: DELETE FROM cart_items WHERE user_id = ?
db_clear_cart(table, user_id) == DeleteRows(table, user_id)

(***************************************************************************)
(* ExcelExporter                                                           *)
(***************************************************************************)

\* a bug add_order could have: only the four pairs of cells the header names
RowItems_first_four(cart) ==
    [i \in 1..(IF Len(cart) < 4 THEN Len(cart) ELSE 4) |->
        [product |-> cart[i].name, quantity |-> cart[i].quantity]]

\* the cells add_order writes after the date and the name: a name and a
\* quantity for each cart item, however many there are
RowItems(cart) == [i \in DOMAIN cart |-> [product |-> cart[i].name,
                                          quantity |-> cart[i].quantity]]

\* a bug add_order could have: the row is appended to a workbook loaded
\* before the last save of another append, and saved over it
add_order_over_stale_workbook(sheet, full_name, cart) ==
    Append(IF sheet = <<>> THEN sheet ELSE SubSeq(sheet, 1, Len(sheet) - 1),
           [full_name |-> full_name, items |-> RowItems(cart)])

\* add_order, when the workbook loads and saves: the new sheet
add_order(sheet, full_name, cart) ==
    Append(sheet, [full_name |-> full_name, items |-> RowItems(cart)])

RECURSIVE ReadItems(_)
\* the pairs of cells get_user_orders keeps: both cells truthy
ReadItems(items) ==
    IF items = <<>> THEN <<>>
    ELSE IF Head(items).product # "" /\ Head(items).quantity # 0
         THEN <<Head(items)>> \o ReadItems(Tail(items))
         ELSE ReadItems(Tail(items))

RECURSIVE get_user_orders_newest_first(_, _)
\* a bug get_user_orders could have: the newest order first
get_user_orders_newest_first(sheet, full_name) ==
    IF sheet = <<>> THEN <<>>
    ELSE IF Head(sheet).full_name # <<>> /\ Head(sheet).full_name = full_name
         THEN get_user_orders_newest_first(Tail(sheet), full_name)
              \o <<[items |-> ReadItems(Head(sheet).items)]>>
         ELSE get_user_orders_newest_first(Tail(sheet), full_name)

RECURSIVE get_user_orders(_, _)
\* the rows whose second cell is full_name, in sheet order
get_user_orders(sheet, full_name) ==
    IF sheet = <<>> THEN <<>>
    ELSE IF Head(sheet).full_name # <<>> /\ Head(sheet).full_name = full_name
         THEN <<[items |-> ReadItems(Head(sheet).items)]>>
              \o get_user_orders(Tail(sheet), full_name)
         ELSE get_user_orders(Tail(sheet), full_name)

(***************************************************************************)
(* Callback tokens and views                                               *)
(***************************************************************************)

CATALOG == <<"catalog">>
CART == <<"cart">>
ORDERS == <<"orders">>
BACK_TO_MENU == <<"back", "to", "menu">>
CHECKOUT == <<"checkout">>
CLEAR_CART == <<"clear", "cart">>
CURRENT_PAGE == <<"current", "page">>

product_(id) == <<"product", StrOf(id)>>
qty_(n) == <<"qty", StrOf(n)>>
orders_page_(n) == <<"orders", "page", StrOf(n)>>

\* query.data.startswith(prefix + "_")
startswith(token, prefix) == Len(token) >= 2 /\ token[1] = prefix

\* no callback query: the update is a message
NoQuery == <<>>

\* What the bot does with an update: the callback query it answers (its
\* data), and the message it sends or edits: what the message says (kind;
\* "none" when no message is sent, "unhandled_..." when no handler took the
\* update) and the callback tokens of its buttons.
\* The orders view also has the page, the page count and the orders it
\* lists, each with its number.
View(user_id, query, kind, buttons) ==
    [user |-> user_id, query |-> query, kind |-> kind, buttons |-> buttons,
     page |-> 0, total_pages |-> 0, shown |-> <<>>]

NoView == View(0, NoQuery, "none", <<>>)

\* the handlers that only send a message
Reply(user_id, query, kind, buttons) ==
    /\ view' = View(user_id, query, kind, buttons)
    /\ UNCHANGED <<products_txt, users, cart_items, orders_xlsx, conv, user_data>>

\* a handler raised: the application calls error_handler
error_handler(user_id, query) == Reply(user_id, query, "error", <<>>)

MAIN_MENU_BUTTONS == <<CATALOG, CART, ORDERS>>

show_main_menu(user_id, query) == Reply(user_id, query, "main_menu", MAIN_MENU_BUTTONS)

(***************************************************************************)
(* The handlers of callback queries                                        *)
(***************************************************************************)

show_catalog(user_id, query) ==
    LET products == get_all_products(products_txt) IN
    IF products = <<>>
    THEN Reply(user_id, query, "catalog_empty", <<>>)
    ELSE Reply(user_id, query, "catalog",
               [i \in DOMAIN products |-> product_(products[i].id)]
               \o <<BACK_TO_MENU>>)

QUANTITY_BUTTONS == <<qty_(1), qty_(2), qty_(3), qty_(5), qty_(10), CATALOG>>

\* a bug show_product_details could have: the selected product kept in one
\* place for all users
show_product_details_shared(user_id, query) ==
    IF ~IsInt(query[2])
    THEN error_handler(user_id, query)
    ELSE LET product_id == IntOf[query[2]]
             product == get_product_by_id(products_txt, product_id)
         IN IF product = NoProduct
            THEN Reply(user_id, query, "product_not_found", <<>>)
            ELSE /\ user_data' = [u \in DOMAIN user_data |->
                                    DictSet(user_data[u], "selected_product", product_id)]
                 /\ view' = View(user_id, query, "product_details", QUANTITY_BUTTONS)
                 /\ UNCHANGED <<products_txt, users, cart_items, orders_xlsx, conv>>

show_product_details(user_id, query) ==
    IF ~IsInt(query[2])
    THEN error_handler(user_id, query)
    ELSE LET product_id == IntOf[query[2]]
             product == get_product_by_id(products_txt, product_id)
         IN IF product = NoProduct
            THEN Reply(user_id, query, "product_not_found", <<>>)
            ELSE /\ user_data' = [user_data EXCEPT ![user_id] =
                                    DictSet(@, "selected_product", product_id)]
                 /\ view' = View(user_id, query, "product_details", QUANTITY_BUTTONS)
                 /\ UNCHANGED <<products_txt, users, cart_items, orders_xlsx, conv>>

\* a bug add_to_cart_handler could have: no check that a product is selected,
\* the first product standing in for a missing one
add_to_cart_handler_unguarded(user_id, query) ==
    IF ~IsInt(query[2])
    THEN error_handler(user_id, query)
    ELSE LET quantity == IntOf[query[2]]
             product_id == DictGet(user_data[user_id], "selected_product", 1)
         IN IF get_product_by_id(products_txt, product_id) = NoProduct
            THEN Reply(user_id, query, "product_not_found", <<>>)
            ELSE /\ cart_items' = add_to_cart(cart_items, user_id, product_id, quantity)
                 /\ view' = View(user_id, query, "added_to_cart",
                                 <<CATALOG, CART, BACK_TO_MENU>>)
                 /\ UNCHANGED <<products_txt, users, orders_xlsx, conv, user_data>>

add_to_cart_handler(user_id, query) ==
    IF ~IsInt(query[2])
    THEN error_handler(user_id, query)
    ELSE LET quantity == IntOf[query[2]]
             product_id == DictGet(user_data[user_id], "selected_product", 0)
         IN IF product_id = 0
            THEN Reply(user_id, query, "product_not_selected", <<>>)
            ELSE IF get_product_by_id(products_txt, product_id) = NoProduct
            THEN Reply(user_id, query, "product_not_found", <<>>)
            ELSE /\ cart_items' = add_to_cart(cart_items, user_id, product_id, quantity)
                 /\ view' = View(user_id, query, "added_to_cart",
                                 <<CATALOG, CART, BACK_TO_MENU>>)
                 /\ UNCHANGED <<products_txt, users, orders_xlsx, conv, user_data>>

show_cart(user_id, query) ==
    IF get_cart_items(cart_items, products_txt, user_id) = <<>>
    THEN Reply(user_id, query, "cart_is_empty", <<BACK_TO_MENU>>)
    ELSE Reply(user_id, query, "cart", <<CHECKOUT, CLEAR_CART, BACK_TO_MENU>>)

orders_per_page == 3

\* total_pages as show_user_orders computes it
total_pages_of(n) == n + orders_per_page - 1

\* orders[start_idx:end_idx], for 0 <= start_idx
Slice(s, start_idx, end_idx) ==
    SubSeq(s, start_idx + 1, IF end_idx < Len(s) THEN end_idx ELSE Len(s))

\* context.user_data.get('orders_page', 0)
orders_page(dict) == DictGet(dict, "orders_page", 0)

\* the message show_user_orders sends for a non-empty list of orders
OrdersView(user_id, query, orders, page) ==
    LET total_pages == total_pages_of(Len(orders))
        start_idx == page * orders_per_page
        end_idx == start_idx + orders_per_page
        current_orders == Slice(orders, start_idx, end_idx)
        pagination_buttons ==
            (IF page > 0 THEN <<orders_page_(page - 1)>> ELSE <<>>)
            \o <<CURRENT_PAGE>>
            \o (IF page < total_pages - 1 THEN <<orders_page_(page + 1)>> ELSE <<>>)
    IN [user |-> user_id, query |-> query, kind |-> "orders",
        buttons |-> pagination_buttons \o <<CATALOG, BACK_TO_MENU>>,
        page |-> page, total_pages |-> total_pages,
        shown |-> [i \in DOMAIN current_orders |->
                      [number |-> start_idx + i, items |-> current_orders[i].items]]]

show_user_orders(user_id, query, profile, io_ok) ==
    LET \* get_user_orders returns [] when the workbook cannot be read
        orders == IF io_ok THEN get_user_orders(orders_xlsx, full_name_of(profile))
                  ELSE <<>>
    IN /\ view' = IF orders = <<>>
                  THEN View(user_id, query, "no_orders", <<CATALOG, BACK_TO_MENU>>)
                  ELSE OrdersView(user_id, query, orders, orders_page(user_data[user_id]))
       /\ UNCHANGED <<products_txt, users, cart_items, orders_xlsx, conv, user_data>>

\* a bug checkout could have: the cart is kept after a recorded order
CartAfterOrder_never_cleared(table, user_id, success) == table

\* a bug checkout could have: the cart is cleared whatever add_order returned
CartAfterOrder_always_cleared(table, user_id, success) == db_clear_cart(table, user_id)

\* what checkout does with the cart once add_order has returned
CartAfterOrder(table, user_id, success) ==
    IF success THEN db_clear_cart(table, user_id) ELSE table

\* a bug checkout could have: a cart that lists nothing is cleared
checkout_clearing_unlisted(user_id, query, io_ok) ==
    LET user == get_user(users, user_id)
        cart == get_cart_items(cart_items, products_txt, user_id)
    IN IF user = NoUser
       THEN Reply(user_id, query, "user_not_found", <<>>)
       ELSE IF cart = <<>>
       THEN /\ cart_items' = db_clear_cart(cart_items, user_id)
            /\ view' = View(user_id, query, "cart_empty", <<>>)
            /\ UNCHANGED <<products_txt, users, orders_xlsx, conv, user_data>>
       ELSE /\ orders_xlsx' = IF io_ok
                              THEN add_order(orders_xlsx, full_name_of(user), cart)
                              ELSE orders_xlsx
            /\ cart_items' = CartAfterOrder(cart_items, user_id, io_ok)
            /\ view' = IF io_ok
                       THEN View(user_id, query, "order_placed", <<ORDERS, BACK_TO_MENU>>)
                       ELSE View(user_id, query, "order_failed", <<BACK_TO_MENU>>)
            /\ UNCHANGED <<products_txt, users, conv, user_data>>

checkout(user_id, query, io_ok) ==
    LET user == get_user(users, user_id)
        cart == get_cart_items(cart_items, products_txt, user_id)
        \* add_order returns False when loading or saving the workbook raises
        success == io_ok
    IN IF user = NoUser
       THEN Reply(user_id, query, "user_not_found", <<>>)
       ELSE IF cart = <<>>
       THEN Reply(user_id, query, "cart_empty", <<>>)
       ELSE /\ orders_xlsx' = IF success
                              THEN add_order(orders_xlsx, full_name_of(user), cart)
                              ELSE orders_xlsx
            /\ cart_items' = CartAfterOrder(cart_items, user_id, success)
            /\ view' = IF success
                       THEN View(user_id, query, "order_placed", <<ORDERS, BACK_TO_MENU>>)
                       ELSE View(user_id, query, "order_failed", <<BACK_TO_MENU>>)
            /\ UNCHANGED <<products_txt, users, conv, user_data>>

clear_cart(user_id, query) ==
    /\ cart_items' = db_clear_cart(cart_items, user_id)
    /\ view' = View(user_id, query, "cart_cleared", <<BACK_TO_MENU>>)
    /\ UNCHANGED <<products_txt, users, orders_xlsx, conv, user_data>>

\* a bug handle_callback could have: a final else that takes whatever is
\* left for clear_cart
handle_callback_with_default(user_id, query, io_ok) ==
    LET user == get_user(users, user_id) IN
    IF user = NoUser THEN Reply(user_id, query, "user_not_found", <<>>)
    ELSE IF query = CATALOG THEN show_catalog(user_id, query)
    ELSE IF query = CART THEN show_cart(user_id, query)
    ELSE IF query = ORDERS THEN show_user_orders(user_id, query, user, io_ok)
    ELSE IF query = BACK_TO_MENU THEN show_main_menu(user_id, query)
    ELSE IF startswith(query, "product") THEN show_product_details(user_id, query)
    ELSE IF startswith(query, "qty") THEN add_to_cart_handler(user_id, query)
    ELSE IF query = CHECKOUT THEN checkout(user_id, query, io_ok)
    ELSE clear_cart(user_id, query)

\* a bug handle_callback could have: clear_cart dispatched before the user is
\* looked up
handle_callback_clearing_first(user_id, query, io_ok) ==
    LET user == get_user(users, user_id) IN
    IF query = CLEAR_CART THEN clear_cart(user_id, query)
    ELSE IF user = NoUser THEN Reply(user_id, query, "user_not_found", <<>>)
    ELSE IF query = CATALOG THEN show_catalog(user_id, query)
    ELSE IF query = CART THEN show_cart(user_id, query)
    ELSE IF query = ORDERS THEN show_user_orders(user_id, query, user, io_ok)
    ELSE IF query = BACK_TO_MENU THEN show_main_menu(user_id, query)
    ELSE IF startswith(query, "product") THEN show_product_details(user_id, query)
    ELSE IF startswith(query, "qty") THEN add_to_cart_handler(user_id, query)
    ELSE IF query = CHECKOUT THEN checkout(user_id, query, io_ok)
    ELSE Reply(user_id, query, "none", <<>>)

handle_callback(user_id, query, io_ok) ==
    LET user == get_user(users, user_id) IN
    IF user = NoUser THEN Reply(user_id, query, "user_not_found", <<>>)
    ELSE IF query = CATALOG THEN show_catalog(user_id, query)
    ELSE IF query = CART THEN show_cart(user_id, query)
    ELSE IF query = ORDERS THEN show_user_orders(user_id, query, user, io_ok)
    ELSE IF query = BACK_TO_MENU THEN show_main_menu(user_id, query)
    ELSE IF startswith(query, "product") THEN show_product_details(user_id, query)
    ELSE IF startswith(query, "qty") THEN add_to_cart_handler(user_id, query)
    ELSE IF query = CHECKOUT THEN checkout(user_id, query, io_ok)
    ELSE IF query = CLEAR_CART THEN clear_cart(user_id, query)
    ELSE \* no branch: the query is answered and no message is sent
         Reply(user_id, query, "none", <<>>)

(***************************************************************************)
(* The conversation                                                        *)
(***************************************************************************)

END == "END"
GET_NAME == "GET_NAME"
MAIN_MENU == "MAIN_MENU"

\* a bug start could have: the name is asked for whether or not there is a
\* profile
start_always_asking(user_id) ==
    /\ conv' = [conv EXCEPT ![user_id] = GET_NAME]
    /\ view' = View(user_id, NoQuery, "name_prompt", <<>>)
    /\ UNCHANGED <<products_txt, users, cart_items, orders_xlsx, user_data>>

start(user_id) ==
    IF get_user(users, user_id) # NoUser
    THEN /\ conv' = [conv EXCEPT ![user_id] = MAIN_MENU]
         /\ view' = View(user_id, NoQuery, "main_menu", MAIN_MENU_BUTTONS)
         /\ UNCHANGED <<products_txt, users, cart_items, orders_xlsx, user_data>>
    ELSE /\ conv' = [conv EXCEPT ![user_id] = GET_NAME]
         /\ view' = View(user_id, NoQuery, "name_prompt", <<>>)
         /\ UNCHANGED <<products_txt, users, cart_items, orders_xlsx, user_data>>

\* a bug get_user_name could have: the second word alone as the last name
get_user_name_second_word(user_id, text) ==
    LET name_parts == split(text) IN
    IF Len(name_parts) < 2
    THEN /\ view' = View(user_id, NoQuery, "name_retry", <<>>)
         /\ UNCHANGED <<products_txt, users, cart_items, orders_xlsx, conv, user_data>>
    ELSE /\ users' = add_user(users, user_id, name_parts[1], name_parts[2])
         /\ conv' = [conv EXCEPT ![user_id] = MAIN_MENU]
         /\ view' = View(user_id, NoQuery, "main_menu", MAIN_MENU_BUTTONS)
         /\ UNCHANGED <<products_txt, cart_items, orders_xlsx, user_data>>

get_user_name(user_id, text) ==
    LET name_parts == split(text) IN
    IF Len(name_parts) < 2
    THEN /\ view' = View(user_id, NoQuery, "name_retry", <<>>)
         /\ UNCHANGED <<products_txt, users, cart_items, orders_xlsx, conv, user_data>>
    ELSE LET first_name == name_parts[1]
             last_name == join(<<" ">>, Tail(name_parts))
         IN /\ users' = add_user(users, user_id, first_name, last_name)
            /\ conv' = [conv EXCEPT ![user_id] = MAIN_MENU]
            /\ view' = View(user_id, NoQuery, "main_menu", MAIN_MENU_BUTTONS)
            /\ UNCHANGED <<products_txt, cart_items, orders_xlsx, user_data>>

\* a bug cancel could have: the cart is emptied with the conversation
cancel_emptying_cart(user_id) ==
    /\ conv' = [conv EXCEPT ![user_id] = END]
    /\ cart_items' = db_clear_cart(cart_items, user_id)
    /\ view' = View(user_id, NoQuery, "cancelled", <<>>)
    /\ UNCHANGED <<products_txt, users, orders_xlsx, user_data>>

cancel(user_id) ==
    /\ conv' = [conv EXCEPT ![user_id] = END]
    /\ view' = View(user_id, NoQuery, "cancelled", <<>>)
    /\ UNCHANGED <<products_txt, users, cart_items, orders_xlsx, user_data>>

\* a bug the pattern could have: no '$', and so product_ and qty_ as prefixes
MenuPattern_unanchored(query) ==
    \/ query \in {CATALOG, CART, ORDERS, BACK_TO_MENU, CHECKOUT, CLEAR_CART}
    \/ startswith(query, "product")
    \/ startswith(query, "qty")

\* pattern="^(catalog|cart|orders|back_to_menu|product_|qty_|checkout|clear_cart)$"
MenuPattern(query) ==
    query \in {CATALOG, CART, ORDERS, BACK_TO_MENU, <<"product", "">>, <<"qty", "">>,
               CHECKOUT, CLEAR_CART}

\* pattern="^orders_page_"
OrdersPagePattern(query) ==
    Len(query) >= 3 /\ query[1] = "orders" /\ query[2] = "page"

(***************************************************************************)
(* The updates, as the application dispatches them: the conversation       *)
(* handler first, then the two callback handlers registered after it.      *)
(* An update no handler takes changes nothing and sends nothing.           *)
(***************************************************************************)

\* no handler takes the update: nothing is sent and nothing changes; the view
\* only records which update it was
Unhandled(user_id, update) == Reply(user_id, NoQuery, update, <<>>)

\* "/start": the entry point, taken only when the user has no conversation
Start(user_id) ==
    IF conv[user_id] = END THEN start(user_id) ELSE Unhandled(user_id, "unhandled_start")

\* a text message that is not a command: taken only in GET_NAME
Text(user_id, text) ==
    IF conv[user_id] = GET_NAME THEN get_user_name(user_id, text)
    ELSE Unhandled(user_id, "unhandled_text")

\* a callback query with data = query
Select(user_id, query, io_ok) ==
    IF conv[user_id] = MAIN_MENU THEN handle_callback(user_id, query, io_ok)
    ELSE IF MenuPattern(query) THEN handle_callback(user_id, query, io_ok)
    ELSE IF OrdersPagePattern(query) THEN handle_callback(user_id, query, io_ok)
    ELSE Unhandled(user_id, "unhandled_select")

\* "/cancel": a fallback, taken only inside a conversation
Cancel(user_id) ==
    IF conv[user_id] # END THEN cancel(user_id) ELSE Unhandled(user_id, "unhandled_cancel")

(***************************************************************************)
(* The specification: two users and a catalog file with one product        *)
(***************************************************************************)

MaxOrders == 1
MaxQuantity == 1

Users == {1, 2}

\* "Widget|10|desc", a line with no delimiter, a line whose price is no number
ShopFile == << <<"Widget", "10", "desc">>, <<"note">>, <<"Gadget", "free", "desc">> >>

\* "A", "A  L"
Texts == { <<"A">>, <<"A", " ", " ", "L">> }

Tokens ==
    {CATALOG, CART, ORDERS, BACK_TO_MENU, CHECKOUT, CLEAR_CART, CURRENT_PAGE,
     <<"product", "1">>, <<"product", "2">>, <<"product", "">>,
     <<"qty", "-1">>, <<"qty", "0">>, <<"qty", "1">>,
     <<"orders", "page", "1">>}

\* the least quantity a token of the model carries: qty_-1
LeastQuantity == IntOf["-1"]

\* the bounds of the model: the rows of the workbook, and the quantities of
\* the cart rows, which stay between the least quantity a token carries and
\* max_quantity
Bounded(max_orders, max_quantity) ==
    /\ Len(orders_xlsx') <= max_orders
    /\ \A i \in DOMAIN cart_items' :
           cart_items'[i].quantity \in LeastQuantity..max_quantity

InitWith(file, user_ids) ==
    /\ products_txt = file
    /\ users = [u \in user_ids |-> NoUser]
    /\ cart_items = <<>>
    /\ orders_xlsx = <<>>
    /\ conv = [u \in user_ids |-> END]
    /\ user_data = [u \in user_ids |-> <<>>]
    /\ view = NoView

Init == InitWith(ShopFile, Users)

Next ==
    \E u \in Users :
        \/ Start(u)
        \/ \E text \in Texts : Text(u, text)
        \/ \E query \in Tokens, io_ok \in BOOLEAN :
               Select(u, query, io_ok) /\ Bounded(MaxOrders, MaxQuantity)
        \/ Cancel(u)

Spec == Init /\ [][Next]_vars

(***************************************************************************)
(* The order history: one user who may place up to four orders             *)
(***************************************************************************)

HistoryMaxOrders == 4
SingleQuantity == 1

HistoryTokens ==
    {CATALOG, CART, ORDERS, BACK_TO_MENU, CHECKOUT, CLEAR_CART, CURRENT_PAGE,
     <<"product", "1">>, <<"qty", "1">>,
     <<"orders", "page", "0">>, <<"orders", "page", "1">>, <<"orders", "page", "2">>,
     <<"product">>, <<"catalog", "2">>}

InitHistory == InitWith(ShopFile, {1})

NextHistory ==
    \/ Start(1)
    \/ \E text \in Texts : Text(1, text)
    \/ \E query \in HistoryTokens, io_ok \in BOOLEAN :
           Select(1, query, io_ok) /\ Bounded(HistoryMaxOrders, SingleQuantity)
    \/ Cancel(1)

SpecHistory == InitHistory /\ [][NextHistory]_vars

(***************************************************************************)
(* The full cart: the catalog _ensure_products_file writes, and a user in  *)
(* the menu who has added one of each of the first four products (/start,  *)
(* "A  L", then product_<i> and qty_1 for i = 1..4)                        *)
(***************************************************************************)

FullCartMaxOrders == 1

\* the default catalog, its names and descriptions in Latin letters
DefaultFile ==
    << <<"Plastik PLA", "150", "PLA">>,
       <<"Plastik ABS", "180", "ABS">>,
       <<"Plastik PETG", "200", "PETG">>,
       <<"Podstavka dlya telefona", "300", "podstavka">>,
       <<"Chehol dlya naushnikov", "250", "chehol">>,
       <<"Statuetka personazha", "500", "statuetka">> >>

FullCartTokens ==
    {CATALOG, CART, ORDERS, BACK_TO_MENU, CHECKOUT, CLEAR_CART,
     <<"product", "5">>, <<"qty", "1">>}

InitFullCart ==
    /\ products_txt = DefaultFile
    /\ users = [u \in {1} |-> << <<"A">>, <<"L">> >>]
    /\ cart_items = [i \in 1..4 |-> [user_id |-> 1, product_id |-> i, quantity |-> 1]]
    /\ orders_xlsx = <<>>
    /\ conv = [u \in {1} |-> MAIN_MENU]
    /\ user_data = [u \in {1} |-> DictSet(<<>>, "selected_product", 4)]
    /\ view = View(1, <<"qty", "1">>, "added_to_cart", <<CATALOG, CART, BACK_TO_MENU>>)

\* (the user is registered: no text message finds a handler)
NextFullCart ==
    \/ Start(1)
    \/ \E query \in FullCartTokens, io_ok \in BOOLEAN :
           Select(1, query, io_ok) /\ Bounded(FullCartMaxOrders, SingleQuantity)
    \/ Cancel(1)

SpecFullCart == InitFullCart /\ [][NextFullCart]_vars

\* the same catalog from the start, to reach the full cart
FullCartSetupTokens ==
    {<<"product", "1">>, <<"product", "2">>, <<"product", "3">>, <<"product", "4">>,
     <<"qty", "1">>}

NextFullCartSetup ==
    \/ Start(1)
    \/ \E text \in Texts : Text(1, text)
    \/ \E query \in FullCartSetupTokens :
           Select(1, query, TRUE) /\ Bounded(FullCartMaxOrders, SingleQuantity)

SpecFullCartSetup == InitWith(DefaultFile, {1}) /\ [][NextFullCartSetup]_vars

\* InitFullCart is a state of the program
FullCartNeverReached == ~InitFullCart

(***************************************************************************)
(* Two customers: a catalog file with two products, and two users in the   *)
(* menu, registered as "A L" and as "A L" or "B L" (/start and the name,   *)
(* user 1 first)                                                           *)
(***************************************************************************)

TwoUsersMaxOrders == 2

\* "Widget|10|desc", "Gadget|5|desc"
TwoProductsFile == << <<"Widget", "10", "desc">>, <<"Gadget", "5", "desc">> >>

\* user 1 looks at the first product and user 2 at the second
TwoUsersTokens(user_id) ==
    {ORDERS, CHECKOUT, CLEAR_CART, product_(user_id), <<"qty", "0">>, <<"qty", "1">>}

InitTwoUsers ==
    /\ products_txt = TwoProductsFile
    /\ \E first_name \in { <<"A">>, <<"B">> } :
           users = (1 :> << <<"A">>, <<"L">> >>) @@ (2 :> <<first_name, <<"L">> >>)
    /\ cart_items = <<>>
    /\ orders_xlsx = <<>>
    /\ conv = [u \in {1, 2} |-> MAIN_MENU]
    /\ user_data = [u \in {1, 2} |-> <<>>]
    /\ view = View(2, NoQuery, "main_menu", MAIN_MENU_BUTTONS)

\* (both users are in the menu: every update here is a callback query)
NextTwoUsers ==
    \E u \in {1, 2} :
        \E query \in TwoUsersTokens(u), io_ok \in BOOLEAN :
            Select(u, query, io_ok) /\ Bounded(TwoUsersMaxOrders, SingleQuantity)

SpecTwoUsers == InitTwoUsers /\ [][NextTwoUsers]_vars

(***************************************************************************)
(* The registration: one user, and as text messages every text of up to    *)
(* MaxNameLen characters among "A", "L" and the space                      *)
(***************************************************************************)

MaxNameLen == 5

NameTexts == UNION {[1..n -> {"A", "L", " "}] : n \in 1..MaxNameLen}

InitNames == InitWith(ShopFile, {1})

NextNames ==
    \/ Start(1)
    \/ \E text \in NameTexts : Text(1, text)
    \/ Cancel(1)

SpecNames == InitNames /\ [][NextNames]_vars

(***************************************************************************)
(* The catalog file edited while the bot runs: get_all_products opens      *)
(* products.txt at every call, so a cart row can outlive its product       *)
(***************************************************************************)

\* ShopFile without the line of its product
EditedFile == Tail(ShopFile)

\* somebody saves another products.txt
EditCatalog ==
    /\ products_txt' \in {ShopFile, EditedFile} \ {products_txt}
    /\ UNCHANGED <<users, cart_items, orders_xlsx, conv, user_data, view>>

StaleCartTokens ==
    {CATALOG, CART, CHECKOUT, CLEAR_CART, <<"product", "1">>, <<"qty", "1">>}

InitStaleCart == InitWith(ShopFile, {1})

NextStaleCart ==
    \/ Start(1)
    \/ \E text \in Texts : Text(1, text)
    \/ \E query \in StaleCartTokens, io_ok \in BOOLEAN :
           Select(1, query, io_ok) /\ Bounded(FullCartMaxOrders, SingleQuantity)
    \/ Cancel(1)
    \/ EditCatalog

SpecStaleCart == InitStaleCart /\ [][NextStaleCart]_vars

(***************************************************************************)
(* The catalog file: every products.txt of up to MaxCatalogLines lines,    *)
(* each "Widget|10|desc", "Gadget|5|desc", "note" (no delimiter), an empty *)
(* line, "Gadget|5" (too few fields) or "Gadget|free|desc" (the price is   *)
(* no number)                                                              *)
(***************************************************************************)

MaxCatalogLines == 2

CatalogLines ==
    { <<"Widget", "10", "desc">>, <<"Gadget", "5", "desc">>, <<"note">>, <<"">>,
      <<"Gadget", "5">>, <<"Gadget", "free", "desc">> }

CatalogFiles == UNION {[1..n -> CatalogLines] : n \in 0..MaxCatalogLines}

CatalogTokens == {CATALOG, BACK_TO_MENU, <<"product", "1">>, <<"product", "2">>}

InitCatalog == \E file \in CatalogFiles : InitWith(file, {1})

NextCatalog ==
    \/ Start(1)
    \/ \E text \in Texts : Text(1, text)
    \/ \E query \in CatalogTokens : Select(1, query, TRUE)
    \/ Cancel(1)

SpecCatalog == InitCatalog /\ [][NextCatalog]_vars

(***************************************************************************)
(* The profile: one user who may send two different names, at any time     *)
(***************************************************************************)

\* "A", "A  L", "L A"
ProfileTexts == { <<"A">>, <<"A", " ", " ", "L">>, <<"L", " ", "A">> }

InitProfile == InitWith(ShopFile, {1})

NextProfile ==
    \/ Start(1)
    \/ \E text \in ProfileTexts : Text(1, text)
    \/ \E query \in HistoryTokens, io_ok \in BOOLEAN :
           Select(1, query, io_ok) /\ Bounded(FullCartMaxOrders, SingleQuantity)
    \/ Cancel(1)

SpecProfile == InitProfile /\ [][NextProfile]_vars

(***************************************************************************)
(* Properties                                                              *)
(***************************************************************************)

\* listItems(u): the user's cart as get_cart_items returns it
listItems(table, u) == get_cart_items(table, products_txt, u)

\* the lines of listItems(u) for product p
RECURSIVE LinesOf(_, _)
LinesOf(items, p) ==
    IF items = <<>> THEN <<>>
    ELSE IF Head(items).id = p THEN <<Head(items)>> \o LinesOf(Tail(items), p)
    ELSE LinesOf(Tail(items), p)

\* the product the user's next qty_<n> adds
selected_product(u) == DictGet(user_data[u], "selected_product", 0)

OneRowPerProduct ==
    \A i, j \in DOMAIN cart_items :
        (/\ cart_items[i].user_id = cart_items[j].user_id
         /\ cart_items[i].product_id = cart_items[j].product_id) => i = j

\* an add by u: afterwards listItems(u) has one line for the product, its
\* quantity the one listed before (none: 0) plus the one added
AddAccumulates ==
    \A u \in DOMAIN conv :
        (view'.user = u /\ view'.kind = "added_to_cart") =>
            LET p == selected_product(u)
                before == LinesOf(listItems(cart_items, u), p)
                after == LinesOf(listItems(cart_items', u), p)
                added == IntOf[view'.query[2]]
            IN /\ Len(after) = 1
               /\ after[1].quantity =
                      (IF before = <<>> THEN 0 ELSE before[1].quantity) + added

\* only an add, a clear or a recorded order of u changes listItems(u)
OnlyCartOperationsChangeCart ==
    cart_items' # cart_items =>
        /\ view'.kind \in {"added_to_cart", "cart_cleared", "order_placed"}
        /\ \A u \in DOMAIN conv \ {view'.user} :
               listItems(cart_items', u) = listItems(cart_items, u)

\* C1: the cart store never holds two rows for one (user, product); an add
\* of q2 to a product listed with q1 leaves exactly one line for it, with
\* quantity q1 + q2, and between two adds nothing but a clear or a checkout
\* of that user changes what listItems returns.
C1_OneRowAccumulates ==
    /\ []OneRowPerProduct
    /\ [][AddAccumulates /\ OnlyCartOperationsChangeCart]_vars

\* C1 witness: qty_-1 has left one line of quantity 0, which only an add of
\* -1 to a line of quantity 1 makes
C1_Witness ==
    /\ view.kind = "added_to_cart"
    /\ view.query = <<"qty", "-1">>
    /\ LET lines == LinesOf(listItems(cart_items, view.user),
                            selected_product(view.user))
       IN Len(lines) = 1 /\ lines[1].quantity = 0

\* C3: after a checkout that recorded the order (the order confirmation is
\* the view), listItems(u) is empty and no cart row of u remains.
C3_CheckoutEmptiesCart ==
    view.kind = "order_placed" =>
        /\ listItems(cart_items, view.user) = <<>>
        /\ \A i \in DOMAIN cart_items : cart_items[i].user_id # view.user

\* C3 witness: an order was recorded for a user who had a cart
C3_Witness ==
    /\ view.kind = "order_placed"
    /\ Len(orders_xlsx) = 1
    /\ orders_xlsx[1].items # <<>>

\* C4: a checkout whose ledger append failed (the failure view is sent)
\* leaves the cart table, listItems(u) and the ledger as they were.
C4_FailedCheckoutKeepsCart ==
    [][\A u \in DOMAIN conv :
          (view'.user = u /\ view'.kind = "order_failed") =>
              /\ listItems(cart_items', u) = listItems(cart_items, u)
              /\ listItems(cart_items, u) # <<>>
              /\ cart_items' = cart_items
              /\ orders_xlsx' = orders_xlsx]_vars

\* C4 witness: the failure view, and the user's cart still listed
C4_Witness ==
    /\ view.kind = "order_failed"
    /\ listItems(cart_items, view.user) # <<>>

\* C7, as claimed: every cart row has a quantity of at least 1
C7_Original ==
    \A i \in DOMAIN cart_items : cart_items[i].quantity >= 1

C2_CheckoutAppendsOrder ==
    [][\A u \in DOMAIN conv :
          LET cart == listItems(cart_items, u) IN
          /\ (view'.user = u /\ view'.kind = "order_placed") =>
                /\ users[u] # NoUser
                /\ cart # <<>>
                /\ orders_xlsx' =
                       Append(orders_xlsx,
                              [full_name |-> users[u][1] \o <<" ">> \o users[u][2],
                               items |-> [i \in 1..Len(cart) |->
                                             [product |-> cart[i].name,
                                              quantity |-> cart[i].quantity]]])
          /\ (/\ view'.user = u /\ view'.query = CHECKOUT
              /\ users[u] # NoUser /\ cart # <<>>) =>
                view'.kind \in {"order_placed", "order_failed"}]_vars

\* C2 witness: "A L" ordered the four products of the cart, in cart order
C2_Witness ==
    /\ view.kind = "order_placed"
    /\ orders_xlsx =
           << [full_name |-> <<"A", " ", "L">>,
               items |-> << [product |-> "Plastik PLA", quantity |-> 1],
                            [product |-> "Plastik ABS", quantity |-> 1],
                            [product |-> "Plastik PETG", quantity |-> 1],
                            [product |-> "Podstavka dlya telefona", quantity |-> 1] >>] >>

\* C5, as claimed: an append of more than 4 line items writes nothing, so
\* every record of the ledger has at most 4 line items
C5_Original ==
    \A i \in DOMAIN orders_xlsx : Len(orders_xlsx[i].items) <= 4

\* C6, as claimed: a checkout of a cart that lists more than 4 products
\* records no order and leaves the cart and the session scratch as they were
C6_Original ==
    [][\A u \in DOMAIN conv :
          (/\ view'.user = u /\ view'.query = CHECKOUT
           /\ Len(listItems(cart_items, u)) > 4) =>
              /\ orders_xlsx' = orders_xlsx
              /\ cart_items' = cart_items
              /\ user_data' = user_data]_vars

\* ceil(n / orders_per_page)
PagesOf(n) == (n + orders_per_page - 1) \div orders_per_page

\* findByCustomer for the user's own name
OrdersOf(u) == get_user_orders(orders_xlsx, full_name_of(users[u]))

\* C9, as claimed: the orders view of a customer with N >= 1 orders reports
\* ceil(N / 3) pages, and selecting "next" (orders_page_<page + 1>) on the
\* last page leaves the page index as it is
C9_Original ==
    /\ [](view.kind = "orders" =>
              view.total_pages = PagesOf(Len(OrdersOf(view.user))))
    /\ [][\A u \in DOMAIN conv :
             LET page == orders_page(user_data[u]) IN
             (/\ view'.user = u
              /\ users[u] # NoUser /\ OrdersOf(u) # <<>>
              /\ page = PagesOf(Len(OrdersOf(u))) - 1
              /\ view'.query = orders_page_(page + 1)) =>
                 orders_page(user_data'[u]) = page]_vars

\* n clamped into [lo, hi]
Clamp(n, lo, hi) == IF n < lo THEN lo ELSE IF n > hi THEN hi ELSE n

\* the numbers of the orders on a page of N orders
PagePositions(page, n) ==
    (orders_per_page * page + 1) ..
        (IF orders_per_page * page + orders_per_page < n
         THEN orders_per_page * page + orders_per_page ELSE n)

\* C10, as claimed: orders_page_<n> from a customer with N >= 1 orders sets
\* the page index to n clamped into [0, ceil(N / 3) - 1], and an orders view
\* lists the orders 3 * page + 1 .. min(3 * page + 3, N) in ledger order
C10_Original ==
    /\ [][\A u \in DOMAIN conv :
             (/\ view'.user = u
              /\ OrdersPagePattern(view'.query) /\ IsInt(view'.query[3])
              /\ users[u] # NoUser /\ OrdersOf(u) # <<>>) =>
                 orders_page(user_data'[u]) =
                     Clamp(IntOf[view'.query[3]], 0, PagesOf(Len(OrdersOf(u))) - 1)]_vars
    /\ [](view.kind = "orders" =>
              LET orders == OrdersOf(view.user)
                  positions == PagePositions(view.page, Len(orders))
              IN /\ {view.shown[i].number : i \in DOMAIN view.shown} = positions
                 /\ \A i \in DOMAIN view.shown :
                        /\ view.shown[i].items = orders[view.shown[i].number].items
                        /\ view.shown[i].number = orders_per_page * view.page + i)

\* the cart rows of user u, in table order
RowsOf(table, u) == SelectSeq(table, LAMBDA row : row.user_id = u)

\* C11: whatever the order of the two users' events, an event of user a
\* leaves the cart rows and the session scratch of every other user as they
\* were, an add of a changes only the row of the product a's own scratch
\* holds, and so each cart holds only what its user selected (here user 1
\* only ever selects product 1 and user 2 product 2).
C11_CartsAreIsolated ==
    /\ [][\A a \in DOMAIN conv :
             view'.user = a =>
                 /\ \A b \in DOMAIN conv \ {a} :
                        /\ RowsOf(cart_items', b) = RowsOf(cart_items, b)
                        /\ user_data'[b] = user_data[b]
                 /\ view'.kind = "added_to_cart" =>
                        /\ \E i \in DOMAIN cart_items' :
                               /\ cart_items'[i].user_id = a
                               /\ cart_items'[i].product_id = selected_product(a)
                        /\ SelectSeq(RowsOf(cart_items', a),
                                     LAMBDA row : row.product_id # selected_product(a))
                           = SelectSeq(RowsOf(cart_items, a),
                                       LAMBDA row : row.product_id # selected_product(a))]_vars
    /\ [](\A i \in DOMAIN cart_items : cart_items[i].product_id = cart_items[i].user_id)

\* C11 witness: both users have added their product, user 1 after user 2
C11_Witness ==
    /\ view.kind = "added_to_cart" /\ view.user = 1
    /\ cart_items = << [user_id |-> 2, product_id |-> 2, quantity |-> 1],
                       [user_id |-> 1, product_id |-> 1, quantity |-> 1] >>

\* C12: whatever the order of the two users' events, the ledger grows by
\* exactly one record at each checkout that reports success and at no other
\* step (so its length is the number of successful checkouts), the records
\* already there stay as they are, and the new record holds the name and
\* the whole cart of the user who checked out and nothing of another cart.
C12_AppendsAreAtomic ==
    [][\A u \in DOMAIN conv :
          view'.user = u =>
              IF view'.kind = "order_placed"
              THEN /\ Len(orders_xlsx') = Len(orders_xlsx) + 1
                   /\ SubSeq(orders_xlsx', 1, Len(orders_xlsx)) = orders_xlsx
                   /\ LET record == orders_xlsx'[Len(orders_xlsx')]
                          cart == listItems(cart_items, u)
                      IN /\ record.full_name = full_name_of(users[u])
                         /\ Len(record.items) = Len(cart)
                         /\ \A i \in DOMAIN cart :
                                /\ record.items[i].product = cart[i].name
                                /\ record.items[i].quantity = cart[i].quantity
              ELSE orders_xlsx' = orders_xlsx]_vars

\* C12 witness: user 2 ("B L") checked out, then user 1, who had filled the
\* cart before user 2's checkout; user 2 has a cart again
C12_Witness ==
    /\ view.kind = "order_placed" /\ view.user = 1
    /\ orders_xlsx =
           << [full_name |-> <<"B", " ", "L">>,
               items |-> << [product |-> "Gadget", quantity |-> 1] >>],
              [full_name |-> <<"A", " ", "L">>,
               items |-> << [product |-> "Widget", quantity |-> 1] >>] >>
    /\ RowsOf(cart_items, 2) # <<>>

\* the step is a "/start" of user u: start answered it, or no handler did
StartEvent(u) ==
    /\ view'.user = u /\ view'.query = NoQuery
    /\ \/ view'.kind \in {"name_prompt", "unhandled_start"}
       \/ view'.kind = "main_menu" /\ conv[u] = END

\* C13, as claimed: a start event of a user with a profile sends the main
\* menu and leaves the conversation in MAIN_MENU, one of a user without a
\* profile sends the name prompt and leaves it in GET_NAME, and neither
\* writes to the registry, the cart store or the ledger
C13_Original ==
    [][\A u \in DOMAIN conv :
          StartEvent(u) =>
              /\ IF users[u] # NoUser
                 THEN view'.kind = "main_menu" /\ conv'[u] = MAIN_MENU
                 ELSE view'.kind = "name_prompt" /\ conv'[u] = GET_NAME
              /\ UNCHANGED <<users, cart_items, orders_xlsx>>]_vars

\* where the words of a text begin: a non-space at the start or after a space
WordStarts(text) ==
    {i \in DOMAIN text : text[i] # " " /\ (i = 1 \/ text[i - 1] = " ")}

\* the word that begins at i: up to the next space or the end
WordAt(text, i) ==
    LET stops == {j \in i..Len(text) : text[j] = " "}
    IN SubSeq(text, i, IF stops = {} THEN Len(text)
                       ELSE (CHOOSE j \in stops : \A k \in stops : j <= k) - 1)

\* the text from its second word on, runs of spaces made one space and
\* spaces at the end dropped
RestOf(text) ==
    LET second == CHOOSE i \in WordStarts(text) :
                      Cardinality({j \in WordStarts(text) : j < i}) = 1
        kept == {i \in second..Len(text) :
                    \/ text[i] # " "
                    \/ /\ text[i - 1] # " "
                       /\ \E j \in WordStarts(text) : j > i}
    IN [k \in 1..Cardinality(kept) |->
           text[CHOOSE i \in kept : Cardinality({j \in kept : j <= i}) = k]]

\* C14: in GET_NAME, a text of fewer than two words is answered with the
\* prompt again, leaves the conversation in GET_NAME and the registry as it
\* is (each time it is sent); a text of two or more words stores the
\* profile <<first word, the other words with one space between them>> and
\* moves the conversation to MAIN_MENU.
C14_NameRegistration ==
    [][\A u \in DOMAIN conv :
          conv[u] = GET_NAME => \A text \in NameTexts :
          Text(u, text) =>
              IF Cardinality(WordStarts(text)) < 2
              THEN /\ conv'[u] = GET_NAME
                   /\ users' = users
                   /\ view'.kind = "name_retry"
              ELSE /\ conv'[u] = MAIN_MENU
                   /\ users' = [users EXCEPT ![u] =
                          << WordAt(text, CHOOSE i \in WordStarts(text) :
                                              \A j \in WordStarts(text) : i <= j),
                             RestOf(text) >>]]_vars

\* C14 witness: a text of three words was the name ("A L A", "L  A L", ...)
C14_Witness ==
    /\ conv[1] = MAIN_MENU
    /\ users[1] # NoUser
    /\ Len(users[1][1]) = 1
    /\ Len(users[1][2]) = 3 /\ users[1][2][2] = " "

\* C15: a checkout of a registered user for whom listItems returns nothing
\* is answered with the "cart empty" message and changes neither the ledger
\* nor the cart table, the rows whose product the catalog no longer has
\* included, nor the registry or the session scratch. (A step that leaves
\* products.txt as it is is an update handled, not an edit of the file.)
C15_EmptyCartCheckout ==
    [][\A u \in DOMAIN conv :
          (/\ view'.user = u /\ view'.query = CHECKOUT
           /\ products_txt' = products_txt
           /\ users[u] # NoUser
           /\ listItems(cart_items, u) = <<>>) =>
              /\ view'.kind = "cart_empty"
              /\ UNCHANGED <<users, cart_items, orders_xlsx, user_data, conv>>]_vars

\* C15 witness: the "cart empty" message, and a row of the user still in the
\* table: its product is gone from the catalog
C15_Witness ==
    /\ view.kind = "cart_empty"
    /\ RowsOf(cart_items, view.user) # <<>>
    /\ listItems(cart_items, view.user) = <<>>

\* C16, as claimed: a cancel discards the session scratch, so that the
\* user's next qty_<n> finds no selected product until a product is selected
\* again
C16_Original ==
    [][\A u \in DOMAIN conv :
          (view'.user = u /\ view'.kind = "cancelled") =>
              /\ user_data'[u] = <<>>
              /\ selected_product(u)' = 0]_vars

\* C17: a "/cancel", whether the conversation is in GET_NAME or in MAIN_MENU
\* (it ends) or there is none (no handler takes it), leaves the registry,
\* the cart table and the ledger as they were: what was registered, added
\* and ordered before stays.
C17_CancelKeepsStores ==
    [][\A u \in DOMAIN conv :
          (view'.user = u /\ view'.kind \in {"cancelled", "unhandled_cancel"}) =>
              /\ UNCHANGED <<users, cart_items, orders_xlsx, products_txt>>
              /\ conv'[u] = END]_vars

\* C17 witness: a conversation was cancelled in the menu, and the profile,
\* a cart row and an order are there
C17_Witness ==
    /\ view.kind = "cancelled"
    /\ users[view.user] # NoUser
    /\ RowsOf(cart_items, view.user) # <<>>
    /\ orders_xlsx # <<>>

\* the rows of the ledger that carry the name, oldest first
RowsNamed(name) ==
    LET hits == {i \in DOMAIN orders_xlsx : orders_xlsx[i].full_name = name}
    IN [k \in 1..Cardinality(hits) |->
           CHOOSE i \in hits : Cardinality({j \in hits : j <= i}) = k]

\* C18: no step changes, moves or removes a row of the ledger (the ledger
\* before is a prefix of the ledger after), and for every name
\* get_user_orders returns one order for each row that carries the name and
\* for no other row, in the order of the rows, each with the items of its
\* row that have a quantity other than 0; so two users of one name are shown
\* the same orders, those of both.
C18_LedgerAppendOnly ==
    /\ [][/\ Len(orders_xlsx') >= Len(orders_xlsx)
          /\ SubSeq(orders_xlsx', 1, Len(orders_xlsx)) = orders_xlsx]_vars
    /\ [](\A name \in { <<"A", " ", "L">>, <<"B", " ", "L">>, <<"L", " ", "A">> } :
             LET rows == RowsNamed(name)
                 found == get_user_orders(orders_xlsx, name)
             IN /\ Len(found) = Len(rows)
                /\ \A k \in DOMAIN rows :
                       found[k].items =
                           SelectSeq(orders_xlsx[rows[k]].items,
                                     LAMBDA item : item.quantity # 0))

\* C18 witness: users 1 and 2 are both "A L", each has placed an order, and
\* the orders view of user 1 lists both, user 2's first
C18_Witness ==
    /\ full_name_of(users[1]) = full_name_of(users[2])
    /\ orders_xlsx =
           << [full_name |-> <<"A", " ", "L">>,
               items |-> << [product |-> "Gadget", quantity |-> 1] >>],
              [full_name |-> <<"A", " ", "L">>,
               items |-> << [product |-> "Widget", quantity |-> 1] >>] >>
    /\ view.kind = "orders" /\ view.user = 1
    /\ view.shown =
           << [number |-> 1, items |-> << [product |-> "Gadget", quantity |-> 1] >>],
              [number |-> 2, items |-> << [product |-> "Widget", quantity |-> 1] >>] >>

\* the tokens of the select events the specification names
Recognized(query) ==
    \/ query \in {CATALOG, CART, ORDERS, BACK_TO_MENU, CHECKOUT, CLEAR_CART}
    \/ /\ Len(query) = 2 /\ query[1] \in {"product", "qty"}
    \/ /\ Len(query) = 3 /\ query[1] = "orders" /\ query[2] = "page"

\* C19: a callback query handled while the user's conversation is in
\* MAIN_MENU leaves it in MAIN_MENU, and when its token is none of the
\* recognized ones ("current_page", "product", "catalog_2") no message is
\* sent and the registry, the cart table, the ledger and the session scratch
\* stay as they were.
C19_UnrecognizedTokenIgnored ==
    [][\A u \in DOMAIN conv :
          (conv[u] = MAIN_MENU /\ view'.user = u /\ view'.query # NoQuery) =>
              /\ conv'[u] = MAIN_MENU
              /\ ~Recognized(view'.query) =>
                     /\ view'.kind = "none"
                     /\ UNCHANGED <<users, cart_items, orders_xlsx, user_data,
                                    products_txt>>]_vars

\* C19 witness: "product" was ignored in the menu; the user has selected a
\* product and has a cart row and an order
C19_Witness ==
    /\ view.query = <<"product">> /\ view.kind = "none"
    /\ conv[view.user] = MAIN_MENU
    /\ selected_product(view.user) = 1
    /\ RowsOf(cart_items, view.user) # <<>>
    /\ orders_xlsx # <<>>

\* a record of the catalog file with a name, a numeric price and a description
WellFormed(line) == Len(line) >= 3 /\ IsInt(line[2])

\* C20, as claimed: the catalog shown is made of every well-formed record of
\* the file, in file order, whatever malformed records stand before or
\* between them, and the k products loaded have the ids 1..k
C20_Original ==
    view.kind \in {"catalog", "catalog_empty"} =>
        LET records == SelectSeq(products_txt, WellFormed)
            loaded == get_all_products(products_txt)
        IN /\ Len(loaded) = Len(records)
           /\ \A i \in DOMAIN loaded :
                  /\ loaded[i].id = i
                  /\ loaded[i].name = records[i][1]
                  /\ loaded[i].price = IntOf[records[i][2]]
           /\ view.buttons = [i \in DOMAIN records |-> product_(i)]
                              \o (IF records = <<>> THEN <<>> ELSE <<BACK_TO_MENU>>)

\* the step is a callback query of user u: handle_callback answered it, or
\* no handler took it
SelectEvent(u) ==
    /\ view'.user = u
    /\ view'.query # NoQuery \/ view'.kind = "unhandled_select"

\* C21: in every state each cart row is the row of a user with a profile and
\* each row of the ledger carries the name of a user with a profile; a
\* callback query of a user without a profile, whether that user's
\* conversation is in GET_NAME or has ended or never begun, changes no
\* store, no scratch and no conversation, and all it is answered with is
\* the "user not found" message (nothing, when no handler takes its token).
C21_OnlyRegisteredUsersOrder ==
    /\ [](/\ \A i \in DOMAIN cart_items : users[cart_items[i].user_id] # NoUser
          /\ \A i \in DOMAIN orders_xlsx :
                 \E u \in DOMAIN users :
                     /\ users[u] # NoUser
                     /\ orders_xlsx[i].full_name = users[u][1] \o <<" ">> \o users[u][2])
    /\ [][\A u \in DOMAIN conv :
             (SelectEvent(u) /\ users[u] = NoUser) =>
                 /\ view'.kind \in {"user_not_found", "unhandled_select"}
                 /\ MenuPattern(view'.query) \/ OrdersPagePattern(view'.query)
                        => view'.kind = "user_not_found"
                 /\ UNCHANGED <<users, cart_items, orders_xlsx, user_data, conv,
                                products_txt>>]_vars

\* C21 witness: "clear_cart" of a user in GET_NAME was answered with "user
\* not found", while the other user has a cart row and an order
C21_Witness ==
    /\ view.kind = "user_not_found" /\ view.query = CLEAR_CART
    /\ conv[view.user] = GET_NAME
    /\ users[view.user] = NoUser
    /\ cart_items # <<>>
    /\ orders_xlsx # <<>>

\* C22: a user with a profile is never in GET_NAME, so get_user_name never
\* runs for that user again, and no step changes or removes a profile: the
\* name that orders are written and looked up under stays the one first
\* given, whatever /start, texts, callback queries and /cancel follow.
C22_ProfileIsFixed ==
    /\ [](\A u \in DOMAIN conv : users[u] # NoUser => conv[u] # GET_NAME)
    /\ [][\A u \in DOMAIN conv :
             users[u] # NoUser =>
                 /\ users'[u] = users[u]
                 /\ full_name_of(users'[u]) = full_name_of(users[u])]_vars

\* C22 witness: the user registered as "A L", ordered, cancelled, started
\* again and then sent a text, which no handler took
C22_Witness ==
    /\ view.kind = "unhandled_text"
    /\ users[1] = << <<"A">>, <<"L">> >>
    /\ conv[1] = MAIN_MENU
    /\ orders_xlsx # <<>>
    /\ orders_xlsx[1].full_name = <<"A", " ", "L">>

\* C23: for a user with a profile and no conversation (after /cancel, before
\* the next /start) the six exact tokens are still handled: "checkout" with
\* a cart that lists something reports an order or a failure, and the order
\* reported is appended to the ledger and the cart is emptied; "clear_cart"
\* empties the cart; "catalog", "cart", "orders" and "back_to_menu" are
\* answered with their views. No product_<id> or qty_<n> is answered there,
\* and a step that is none of "checkout" and "clear_cart" changes neither
\* the cart nor, whatever the token, the selected product. The conversation
\* stays ended. (The main menu sent for no callback query is that of the
\* next /start.)
C23_HandledOutsideConversation ==
    [][\A u \in DOMAIN conv :
          (view'.user = u /\ conv[u] = END /\ users[u] # NoUser
           /\ ~(view'.query = NoQuery /\ view'.kind = "main_menu")) =>
              LET cart == listItems(cart_items, u) IN
              /\ conv'[u] = END
              /\ user_data'[u] = user_data[u]
              /\ ~(/\ Len(view'.query) = 2
                   /\ view'.query[1] \in {"product", "qty"}
                   /\ IsInt(view'.query[2]))
              /\ (view'.query = CHECKOUT /\ cart # <<>>) =>
                     /\ view'.kind \in {"order_placed", "order_failed"}
                     /\ view'.kind = "order_placed" =>
                            /\ Len(orders_xlsx') = Len(orders_xlsx) + 1
                            /\ Len(orders_xlsx'[Len(orders_xlsx')].items) = Len(cart)
                            /\ RowsOf(cart_items', u) = <<>>
              /\ view'.query = CLEAR_CART =>
                     /\ view'.kind = "cart_cleared"
                     /\ RowsOf(cart_items', u) = <<>>
              /\ view'.query = CATALOG => view'.kind = "catalog"
              /\ view'.query = CART => view'.kind \in {"cart", "cart_is_empty"}
              /\ view'.query = ORDERS => view'.kind \in {"orders", "no_orders"}
              /\ view'.query = BACK_TO_MENU => view'.kind = "main_menu"
              /\ view'.query \notin {CHECKOUT, CLEAR_CART} =>
                     cart_items' = cart_items /\ orders_xlsx' = orders_xlsx]_vars

\* C23 witness: an order was placed by a user whose conversation had ended
C23_Witness ==
    /\ view.kind = "order_placed"
    /\ conv[view.user] = END
    /\ orders_xlsx # <<>>
    /\ RowsOf(cart_items, view.user) = <<>>

====
